---- MODULE Spec2Model ----
(***************************************************************************)
(* State-machine model of the two sensor drivers of the repository:        *)
(*   - MHZ19Component (CO2 sensor on the UART bus), src/unnamed/part_000   *)
(*     lines 167-285;                                                      *)
(*   - TSL2561Sensor (illuminance sensor on the I2C bus),                  *)
(*     src/unnamed/part_000 lines 1-166.                                   *)
(* Specifications:                                                         *)
(*   - SpecMHZ19: update() cycles of the CO2 sensor, any responses;        *)
(*   - SpecChecksum: mhz19_checksum framing and validating a frame;        *)
(*   - SpecTSL2561: the handlers of the illuminance sensor in any order;   *)
(*   - SpecTSL2561Timed: the same handlers called by the scheduler, with   *)
(*     the time, the update interval and the "illuminance" timeout.        *)
(* C arrays are 0-based, TLA+ sequences 1-based: C's buf[i] is buf[i+1].   *)
(***************************************************************************)
EXTENDS Integers, Sequences, FiniteSets, TLC

VARIABLES
    \* ---- MHZ19Component: fields
    model_b,              \* this->model_b
    abc_disabled,         \* this->abc_disabled
    temperature_sensor_,  \* this->temperature_sensor_ != nullptr
    mhz19_warning,        \* the component's warning status flag
    mhz19_failed,         \* the component's failed status flag
    \* ---- MHZ19Component: what the latest update() did
    read_ok,              \* the get-reading response was read (read_array returned true)
    response,             \* the 9 bytes of response[], <<>> when they were not read
    abc,                  \* "none" | "acked" | "noack": the disable-ABC exchange of the cycle
    status_calls,         \* the status_set_warning / status_clear_warning calls, in order
    published,            \* the publish_state calls, in order: <<sensor, value>>
    uart,                 \* the UART operations, in order
    pre,                  \* the fields as they were when update() was entered
    abc_failures,         \* disable-ABC acknowledgements not read so far (saturating)
    \* ---- TSL2561Sensor: fields
    gain_,                \* this->gain_: 0 = TSL2561_GAIN_1X, 1 = TSL2561_GAIN_16X
    integration_time_,    \* this->integration_time_: 0 = 14 ms, 1 = 101 ms, 2 = 402 ms
    package_cs_,          \* this->package_cs_
    tsl2561_warning,      \* the component's warning status flag
    tsl2561_failed,       \* the component's failed status flag
    tsl2561_phase,        \* "constructed" before setup() has run, "running" after
    timeouts,             \* the component's pending timeouts, in registration
                          \* order: [key, set_at (ms), delay (ms)]
    \* ---- TSL2561Sensor: what the latest setup(), update() or read_data_() did
    tsl2561_last,         \* "none" | "setup" | "update" | "read_data_"
    tsl2561_pre,          \* the fields, the timeouts and the time when it was entered
    i2c,                  \* its I2C operations, in order
    lx_published,         \* its push_new_value calls, in order: [lx, after], after
                          \* being the number of I2C operations made before the call
    \* ---- the scheduler of the TSL2561Sensor
    now,                  \* the time, in ms
    update_interval,      \* the component's update interval, in ms
    next_due,             \* when update() is next due
    n_update,             \* update() calls so far
    n_published,          \* values published so far
    reads_since_update,   \* read_data_() calls since the latest update() (saturating at 2)
    reads_before_update,  \* that count as it was when the latest update() was entered
    \* ---- mhz19_checksum on its own: a request framed, altered, validated
    ck_command,           \* the 8-byte command buffer
    ck_frame,             \* the 9-byte frame built from it, <<>> before it is built
    ck_changed,           \* the index (0..8) of the byte altered since, -1 for none
    ck_valid              \* "unchecked", or the validation's verdict: "valid", "invalid"

mhz19_vars == <<model_b, abc_disabled, temperature_sensor_, mhz19_warning,
                mhz19_failed, read_ok, response, abc, status_calls, published,
                uart, pre, abc_failures>>

\* What the driver's own code reads and writes.
tsl2561_driver_vars == <<gain_, integration_time_, package_cs_, tsl2561_warning,
                         tsl2561_failed, tsl2561_phase, timeouts, tsl2561_last,
                         tsl2561_pre, i2c, lx_published>>

\* What the scheduler and its bookkeeping add.
scheduler_vars == <<now, update_interval, next_due, n_update, n_published,
                    reads_since_update, reads_before_update>>

tsl2561_vars == <<gain_, integration_time_, package_cs_, tsl2561_warning,
                  tsl2561_failed, tsl2561_phase, timeouts, tsl2561_last,
                  tsl2561_pre, i2c, lx_published,
                  now, update_interval, next_due, n_update, n_published,
                  reads_since_update, reads_before_update>>

checksum_vars == <<ck_command, ck_frame, ck_changed, ck_valid>>

vars == <<model_b, abc_disabled, temperature_sensor_, mhz19_warning,
          mhz19_failed, read_ok, response, abc, status_calls, published,
          uart, pre, abc_failures,
          gain_, integration_time_, package_cs_, tsl2561_warning,
          tsl2561_failed, tsl2561_phase, timeouts, tsl2561_last,
          tsl2561_pre, i2c, lx_published,
          now, update_interval, next_due, n_update, n_published,
          reads_since_update, reads_before_update,
          ck_command, ck_frame, ck_changed, ck_valid>>

----------------------------------------------------------------------------
(* Bounds and input domains                                                *)

\* The counter of unread disable-ABC acknowledgements saturates here.
MaxAbcFailures == 2

\* The scheduler runs update() of the TSL2561Sensor at most this many times.
MaxUpdates == 3

\* What a received response is drawn from.  Bytes 0-1 (preamble): the valid
\* one, a wrong start marker, a wrong command echo.  Bytes 2-4 (CO2 high,
\* CO2 low, temperature): 400 ppm / 0 C, 255 ppm / -40 C, 65280 ppm / 215 C.
\* Byte 5 (status): the B variant's 0, or 1.  Bytes 6-7 (U): 15000, 0, and
\* 15000 with its bytes swapped.  Byte 8 is drawn relative to the checksum
\* of the other bytes (see Responses).
ResponsePreambles == {<<255, 134>>, <<0, 134>>, <<255, 121>>}
ResponsePayloads == {<<1, 144, 40>>, <<0, 255, 0>>, <<255, 0, 255>>}
ResponseStatuses == {0, 1}
ResponseUs == {<<58, 152>>, <<0, 0>>, <<152, 58>>}

----------------------------------------------------------------------------
(* MH-Z19: constants and pure helpers                                      *)

MHZ19_REQUEST_LENGTH == 8
MHZ19_RESPONSE_LENGTH == 9
MHZ19_COMMAND_GET_PPM == <<255, 1, 134, 0, 0, 0, 0, 0>>
MHZ19_COMMAND_ABC_DISABLE == <<255, 1, 121, 0, 0, 0, 0, 0, 134>>

\* The loop of mhz19_checksum: sum += command[i] for i = from .. 7, in uint8_t.
RECURSIVE checksum_sum(_, _, _)
checksum_sum(command, i, sum) ==
    IF i < MHZ19_REQUEST_LENGTH
    THEN checksum_sum(command, i + 1, (sum + command[i + 1]) % 256)
    ELSE sum

\* Mutant: the loop starts at byte 0 instead of byte 1.
mhz19_checksum_from_byte_0(command) ==
    (255 - checksum_sum(command, 0, 0) + 1) % 256

\* uint8_t mhz19_checksum(const uint8_t *command): 0xFF - sum + 0x01 is
\* computed in int and truncated to uint8_t by the return.
mhz19_checksum(command) ==
    (255 - checksum_sum(command, 1, 0) + 1) % 256


\* One UART operation as it appears in the log of a cycle.
uart_flush == [op |-> "flush", data |-> <<>>, n |-> 0, ok |-> TRUE]
\* Mutant: the whole command array is written, whatever its length.
uart_write_array_whole(data, len) ==
    [op |-> "write_array", data |-> data, n |-> Len(data), ok |-> TRUE]
uart_write_array(data, len) ==
    [op |-> "write_array", data |-> SubSeq(data, 1, len), n |-> len, ok |-> TRUE]
uart_write_byte(byte) ==
    [op |-> "write_byte", data |-> <<byte>>, n |-> 1, ok |-> TRUE]
uart_read_array(len, ok) ==
    [op |-> "read_array", data |-> <<>>, n |-> len, ok |-> ok]

\* Mutant: a failed read returns at once, without the trailing flush.
mhz19_write_command_no_flush_on_failure(command, has_response, ok, bytes) ==
    LET request == << uart_flush,
                      uart_write_array(command, MHZ19_REQUEST_LENGTH),
                      uart_write_byte(mhz19_checksum(command)) >>
        read    == uart_read_array(MHZ19_RESPONSE_LENGTH, ok)
    IN  IF ~has_response
        THEN [ret |-> TRUE, ops |-> request, response |-> <<>>]
        ELSE IF ~ok
        THEN [ret |-> FALSE, ops |-> request \o <<read>>, response |-> <<>>]
        ELSE [ret |-> TRUE, ops |-> request \o <<read, uart_flush>>,
              response |-> bytes]

\* bool MHZ19Component::mhz19_write_command_(command, response).
\* has_response: response != nullptr; ok: what read_array returns; bytes: the
\* bytes read_array stores in response[] when it returns true.
mhz19_write_command_(command, has_response, ok, bytes) ==
    LET request == << uart_flush,
                      uart_write_array(command, MHZ19_REQUEST_LENGTH),
                      uart_write_byte(mhz19_checksum(command)) >>
    IN  IF ~has_response
        THEN [ret |-> TRUE, ops |-> request, response |-> <<>>]
        ELSE [ret |-> ok,
              ops |-> request \o << uart_read_array(MHZ19_RESPONSE_LENGTH, ok),
                                    uart_flush >>,
              response |-> IF ok THEN bytes ELSE <<>>]

\* Mutant: only the start marker is checked, not the command echo.
invalid_preamble_start_marker_only(r) == r[1] # 255

\* response[0] != 0xFF || response[1] != 0x86
invalid_preamble(r) == r[1] # 255 \/ r[2] # 134

\* uint16_t u = (response[6] << 8) + response[7]
status_u(r) == (r[7] * 256 + r[8]) % 65536

\* Mutant: U is decoded with its two bytes in the wrong order.
booting_little_endian(r) == (r[8] * 256 + r[7]) % 65536 = 15000

\* u == 15000: the sensor is booting
booting(r) == status_u(r) = 15000

\* Mutant: the flag is assigned from every response instead of latched.
detect_model_b_not_sticky(r, mb) == r[6] = 0

\* if (response[5] == 0 && this->model_b == false) this->model_b = true;
\* the value of model_b after the statement.
detect_model_b(r, mb) == IF r[6] = 0 /\ mb = FALSE THEN TRUE ELSE mb

\* Mutant: the abc_disabled flag is not consulted.
abc_disable_needed_ignoring_flag(mb, ad) == mb

\* Mutant: the frame is sent only in the cycle that detects the variant.
abc_disable_needed_on_detection_only(mb, ad) ==
    mb /\ model_b = FALSE /\ ad = FALSE

\* Mutant: the variant flag is not consulted.
abc_disable_needed_ignoring_variant(mb, ad) == ad = FALSE

\* this->model_b && this->abc_disabled == false
abc_disable_needed(mb, ad) == mb /\ ad = FALSE

\* response[8] != mhz19_checksum(response)
checksum_mismatch(r) == r[9] # mhz19_checksum(r)

\* Mutant: the two CO2 bytes are decoded in the wrong order.
ppm_of_little_endian(r) == ((r[4] * 256) % 65536) + r[3]

\* (uint16_t(response[2]) << 8) | response[3]: the low byte of the shifted
\* operand is zero, so the bitwise or is the sum.
ppm_of(r) == ((r[3] * 256) % 65536) + r[4]

\* int(response[4]) - 40
temp_of(r) == r[5] - 40

\* co2_sensor_->publish_state(ppm); if (temperature_sensor_ != nullptr)
\* temperature_sensor_->publish_state(temp);
publications(r, has_temperature) ==
    << <<"co2", ppm_of(r)>> >> \o
    (IF has_temperature THEN << <<"temperature", temp_of(r)>> >> ELSE <<>>)

\* The status primitives of the component base class.
status_set_warning(w) == TRUE
status_clear_warning(w) == FALSE

RECURSIVE apply_status_calls(_, _)
apply_status_calls(calls, w) ==
    IF calls = <<>> THEN w
    ELSE apply_status_calls(Tail(calls),
            IF Head(calls) = "status_set_warning"
            THEN status_set_warning(w) ELSE status_clear_warning(w))

saturating_inc(n, max) == IF n < max THEN n + 1 ELSE max

----------------------------------------------------------------------------
(* MH-Z19: the component                                                   *)

\* All received responses the model draws from: every combination of the
\* domains above, with byte 8 either the matching checksum or one off it.
Responses ==
    { b \o <<(mhz19_checksum(b) + d) % 256>> :
        b \in { pa \o pl \o <<st>> \o u :
                  pa \in ResponsePreambles, pl \in ResponsePayloads,
                  st \in ResponseStatuses, u \in ResponseUs },
        d \in {0, 1} }

\* MHZ19Component::MHZ19Component: both flags false, no temperature sensor,
\* status healthy, nothing done yet.
MHZ19Init ==
    /\ model_b = FALSE
    /\ abc_disabled = FALSE
    /\ temperature_sensor_ = FALSE
    /\ mhz19_warning = FALSE
    /\ mhz19_failed = FALSE
    /\ read_ok = FALSE
    /\ response = <<>>
    /\ abc = "none"
    /\ status_calls = <<>>
    /\ published = <<>>
    /\ uart = <<>>
    /\ pre = [model_b |-> FALSE, abc_disabled |-> FALSE,
              temperature_sensor_ |-> FALSE, abc_failures |-> 0]
    /\ abc_failures = 0

\* The end of update() on one of its paths: the fields as the path leaves
\* them, and the record of what the cycle did.
update_return(get, mb, ad, calls, pubs, ops, abc_) ==
    /\ model_b' = mb
    /\ abc_disabled' = ad
    /\ mhz19_warning' = apply_status_calls(calls, mhz19_warning)
    /\ read_ok' = get.ret
    /\ response' = get.response
    /\ abc' = abc_
    /\ status_calls' = calls
    /\ published' = pubs
    /\ uart' = ops
    /\ pre' = [model_b |-> model_b, abc_disabled |-> abc_disabled,
               temperature_sensor_ |-> temperature_sensor_,
               abc_failures |-> abc_failures]
    /\ abc_failures' = IF abc_ = "noack"
                       THEN saturating_inc(abc_failures, MaxAbcFailures)
                       ELSE abc_failures
    /\ UNCHANGED <<temperature_sensor_, mhz19_failed>>
    /\ UNCHANGED <<tsl2561_vars, checksum_vars>>

\* update() from the checksum validation on (lines 240-255).
update_validate(get, mb, ad, ops, abc_) ==
    IF checksum_mismatch(get.response)
    THEN update_return(get, mb, ad, <<"status_set_warning">>, <<>>, ops, abc_)
    ELSE update_return(get, mb, ad, <<"status_clear_warning">>,
                       publications(get.response, temperature_sensor_), ops, abc_)

\* void MHZ19Component::update().  rd: the get-reading response is read;
\* bytes: its 9 bytes; ack: the disable-ABC acknowledgement is read.
update(rd, bytes, ack) ==
    LET get == mhz19_write_command_(MHZ19_COMMAND_GET_PPM, TRUE, rd, bytes)
        r   == get.response
    IN  IF ~get.ret
        THEN update_return(get, model_b, abc_disabled, <<"status_set_warning">>,
                           <<>>, get.ops, "none")
        ELSE IF invalid_preamble(r)
        THEN update_return(get, model_b, abc_disabled, <<"status_set_warning">>,
                           <<>>, get.ops, "none")
        ELSE IF booting(r)
        THEN update_return(get, model_b, abc_disabled, <<>>, <<>>, get.ops, "none")
        ELSE LET mb == detect_model_b(r, model_b) IN
             IF abc_disable_needed(mb, abc_disabled)
             THEN LET dis == mhz19_write_command_(MHZ19_COMMAND_ABC_DISABLE,
                                                  TRUE, ack, <<>>)
                  IN  IF ~dis.ret
                      THEN update_return(get, mb, abc_disabled, <<>>, <<>>,
                                         get.ops \o dis.ops, "noack")
                      ELSE update_validate(get, mb, TRUE, get.ops \o dis.ops,
                                           "acked")
             ELSE update_validate(get, mb, abc_disabled, get.ops, "none")

MHZ19Update ==
    \/ update(FALSE, <<>>, FALSE)
    \/ \E bytes \in Responses, ack \in BOOLEAN : update(TRUE, bytes, ack)

\* MHZ19Component::make_temperature_sensor
make_temperature_sensor ==
    /\ temperature_sensor_' = TRUE
    /\ UNCHANGED <<model_b, abc_disabled, mhz19_warning, mhz19_failed, read_ok,
                   response, abc, status_calls, published, uart, pre,
                   abc_failures>>
    /\ UNCHANGED <<tsl2561_vars, checksum_vars>>

----------------------------------------------------------------------------
(* TSL2561: constants and pure helpers                                     *)

TSL2561_REGISTER_CONTROL == 0
TSL2561_REGISTER_TIMING == 1
TSL2561_REGISTER_DATA_0 == 12
TSL2561_REGISTER_DATA_1 == 14

TSL2561_GAIN_1X == 0
TSL2561_GAIN_16X == 1
TSL2561_INTEGRATION_14MS == 0
TSL2561_INTEGRATION_101MS == 1
TSL2561_INTEGRATION_402MS == 2

\* The configurations the setters are called with.
Gains == {TSL2561_GAIN_1X, TSL2561_GAIN_16X}
IntegrationTimes ==
    {TSL2561_INTEGRATION_14MS, TSL2561_INTEGRATION_101MS, TSL2561_INTEGRATION_402MS}

\* The timing bytes the device answers setup() with: every byte.
TimingBytes == 0..255

\* The raw channel pairs <<ch0, ch1>> the device answers read_data_() with:
\* scenario A of the specification, the saturation sentinel in either
\* channel and in both, ratios on and beside the branch thresholds, a zero
\* channel 0.
ChannelPairs ==
    { <<1000, 300>>, <<65535, 5>>, <<7, 65535>>, <<65535, 65535>>, <<258, 3>>,
      <<0, 0>>, <<0, 9>>, <<2, 1>>, <<25, 13>>, <<100, 61>>, <<20, 13>>,
      <<5, 4>>, <<10, 13>>, <<1000, 519>>, <<1000, 1299>> }

\* The update intervals the component is constructed with, in ms: between
\* the conversion delays of the 14 ms and the 101 ms settings, and above all.
ShortUpdateInterval == 60
LongUpdateInterval == 500
UpdateIntervals == {ShortUpdateInterval, LongUpdateInterval}

\* How far from a deadline the scheduler's ticks fall, in ms.
TickOffsets == {-1, 0, 1}

\* Bit k of the byte x, and x & mask, x | mask for a mask given as a set of bits.
bit(x, k) == (x \div (2 ^ k)) % 2
RECURSIVE from_bits(_, _)
from_bits(f, k) == IF k > 7 THEN 0 ELSE f[k] * (2 ^ k) + from_bits(f, k + 1)
and_not(x, bits) ==
    from_bits([k \in 0..7 |-> IF k \in bits THEN 0 ELSE bit(x, k)], 0)
or_bits(x, bits) ==
    from_bits([k \in 0..7 |-> IF k \in bits THEN 1 ELSE bit(x, k)], 0)
or_byte(x, y) ==
    from_bits([k \in 0..7 |-> IF bit(y, k) = 1 THEN 1 ELSE bit(x, k)], 0)

\* One I2C operation as it appears in the log of a handler.
i2c_read_byte(reg, ok, value) ==
    [op |-> "read_byte", reg |-> reg, data |-> IF ok THEN <<value>> ELSE <<>>,
     n |-> 1, ok |-> ok]
i2c_write_byte(reg, value, ok) ==
    [op |-> "write_byte", reg |-> reg, data |-> <<value>>, n |-> 1, ok |-> ok]
i2c_read_bytes(reg, len, ok, bytes) ==
    [op |-> "read_bytes", reg |-> reg, data |-> IF ok THEN bytes ELSE <<>>,
     n |-> len, ok |-> ok]

\* The timing byte setup() writes back (lines 41-50), from the byte read.
setup_timing(timing, gain, integration_time) ==
    LET t1 == and_not(timing, {4})                      \* timing &= ~0b00010000
        t2 == IF gain = TSL2561_GAIN_16X                \* timing |= 0b0001000 or 0
              THEN or_bits(t1, {3}) ELSE t1
        t3 == and_not(t2, {0, 1})                       \* timing &= ~0b00000011
    IN  or_byte(t3, and_not(integration_time % 256, {2, 3, 4, 5, 6, 7}))

\* Mutant: setup() marks the device failed when the write-back is not
\* acknowledged either.
setup_result_checking_write(ok_read, timing, ok_write, gain, integration_time) ==
    IF ~ok_read
    THEN [mark_failed |-> TRUE,
          ops |-> << i2c_read_byte(TSL2561_REGISTER_TIMING, FALSE, 0) >>]
    ELSE [mark_failed |-> ~ok_write,
          ops |-> << i2c_read_byte(TSL2561_REGISTER_TIMING, TRUE, timing),
                     i2c_write_byte(TSL2561_REGISTER_TIMING,
                         setup_timing(timing, gain, integration_time),
                         ok_write) >>]

\* What setup() does (lines 32-60): whether it calls mark_failed(), and its
\* I2C operations.  The result of the write-back is not looked at.
setup_result(ok_read, timing, ok_write, gain, integration_time) ==
    IF ~ok_read
    THEN [mark_failed |-> TRUE,
          ops |-> << i2c_read_byte(TSL2561_REGISTER_TIMING, FALSE, 0) >>]
    ELSE [mark_failed |-> FALSE,
          ops |-> << i2c_read_byte(TSL2561_REGISTER_TIMING, TRUE, timing),
                     i2c_write_byte(TSL2561_REGISTER_TIMING,
                         setup_timing(timing, gain, integration_time),
                         ok_write) >>]

\* float TSL2561Sensor::get_integration_time_ms_(), in tenths of a
\* millisecond: 13.7, 100.0, 402.0, otherwise 0.0.
get_integration_time_ms_(integration_time) ==
    CASE integration_time = TSL2561_INTEGRATION_14MS  -> 137
      [] integration_time = TSL2561_INTEGRATION_101MS -> 1000
      [] integration_time = TSL2561_INTEGRATION_402MS -> 4020
      [] OTHER -> 0

\* Mutant: the delay without the 20 ms added.
update_timeout_without_guard_band(integration_time) ==
    get_integration_time_ms_(integration_time) \div 10

\* uint32_t timeout = get_integration_time_ms_() + 20.0f: the float sum is
\* truncated towards zero by the conversion to uint32_t.
update_timeout(integration_time) ==
    (get_integration_time_ms_(integration_time) + 200) \div 10

\* The component's timeouts.  cancel_timeout removes the pending timeouts
\* of a key; set_timeout cancels the key's pending timeout and registers a
\* new one, due delay ms after the time at.
cancel_timeout(ts, key) == SelectSeq(ts, LAMBDA t : t.key # key)
set_timeout(ts, key, delay, at) ==
    Append(cancel_timeout(ts, key), [key |-> key, set_at |-> at, delay |-> delay])
timeout_due(t, at) == at - t.set_at >= t.delay

\* Mutant: the timeout is registered without cancelling the pending one.
update_timeouts_without_cancel(ts, integration_time, at) ==
    Append(ts, [key |-> "illuminance", set_at |-> at,
                delay |-> update_timeout(integration_time)])

\* this->set_timeout("illuminance", timeout, ...) of update(), lines 66-70.
update_timeouts(ts, integration_time, at) ==
    set_timeout(ts, "illuminance", update_timeout(integration_time), at)

\* Mutant: the ratio on a threshold takes the branch below it.
ratio_less_or_equal(ch0, ch1, num, den) == ch0 > 0 /\ ch1 * den <= num * ch0

\* ratio < num/den for ratio = float(ch1) / float(ch0) and the float literal
\* num/den.  With 16-bit counts the quotient is never closer to a threshold
\* than the threshold's rounding error unless it equals the threshold, so
\* the float comparison agrees with the comparison of the exact fractions.
\* ch0 = 0 makes the ratio infinite or not-a-number: every comparison fails.
ratio_less(ch0, ch1, num, den) == ch0 > 0 /\ ch1 * den < num * ch0

\* Mutant: saturation only when both channels hold the sentinel.
saturated_both(ch0, ch1) == ch0 = 65535 /\ ch1 = 65535

\* if ((ch0 == 0xFFFF) || (ch1 == 0xFFFF)), lines 74-77
saturated(ch0, ch1) == ch0 = 65535 \/ ch1 = 65535

\* What calculate_lx_ returns, symbolically: not-a-number, the constant
\* 0.0, or k0 * d0 - k1 * x with the coefficients in units of 10^-5, x
\* either d1 or d0 * ratio^1.4, and d0, d1 the raw counts scaled by
\* 402 / ms and by scale (16 for the 1x gain).
lx_nan == [kind |-> "nan", k0 |-> 0, k1 |-> 0, x |-> "", ch0 |-> 0, ch1 |-> 0,
           ms |-> 0, scale |-> 0]
lx_zero == [kind |-> "zero", k0 |-> 0, k1 |-> 0, x |-> "", ch0 |-> 0, ch1 |-> 0,
            ms |-> 0, scale |-> 0]
lx_formula(k0, k1, x, ch0, ch1, ms, scale) ==
    [kind |-> "formula", k0 |-> k0, k1 |-> k1, x |-> x, ch0 |-> ch0,
     ch1 |-> ch1, ms |-> ms, scale |-> scale]

\* float TSL2561Sensor::calculate_lx_(uint16_t ch0, uint16_t ch1)
calculate_lx_(ch0, ch1, gain, integration_time, package_cs) ==
    IF saturated(ch0, ch1) THEN lx_nan
    ELSE
    LET ms    == get_integration_time_ms_(integration_time)
        scale == IF gain = TSL2561_GAIN_1X THEN 16 ELSE 1
        f(k0, k1, x) == lx_formula(k0, k1, x, ch0, ch1, ms, scale)
    IN  IF package_cs
        THEN CASE ratio_less(ch0, ch1, 52, 100)  -> f(3150, 5930, "d0*ratio^1.4")
               [] ratio_less(ch0, ch1, 65, 100)  -> f(2290, 2910, "d1")
               [] ratio_less(ch0, ch1, 80, 100)  -> f(1570, 1530, "d1")
               [] ratio_less(ch0, ch1, 130, 100) -> f(338, 260, "d1")
               [] OTHER -> lx_zero
        ELSE CASE ratio_less(ch0, ch1, 50, 100)  -> f(3040, 6200, "d0*ratio^1.4")
               [] ratio_less(ch0, ch1, 61, 100)  -> f(2240, 3100, "d1")
               [] ratio_less(ch0, ch1, 80, 100)  -> f(1280, 1530, "d1")
               [] ratio_less(ch0, ch1, 130, 100) -> f(146, 112, "d1")
               [] OTHER -> lx_zero

\* The two bytes the device sends for a 16-bit channel count, low byte first.
channel_bytes(ch) == <<ch % 256, ch \div 256>>

\* Mutant: the first byte taken as the high byte.
channel_of_big_endian(lo, hi) == ((hi % 256) + (lo % 256) * 256) % 65536

\* (data[i] & 0xFF) | ((data[i+1] & 0xFF) << 8), truncated to uint16_t
channel_of(lo, hi) == ((lo % 256) + (hi % 256) * 256) % 65536

----------------------------------------------------------------------------
(* TSL2561: the sensor                                                     *)

\* The fields, the timeouts and the time as a handler finds them.
tsl2561_entry ==
    [gain_ |-> gain_, integration_time_ |-> integration_time_,
     package_cs_ |-> package_cs_, tsl2561_warning |-> tsl2561_warning,
     tsl2561_failed |-> tsl2561_failed, timeouts |-> timeouts, now |-> now]

\* TSL2561Sensor::TSL2561Sensor, with the fields' default initialisers and
\* the update interval it is given; the scheduler has not started.
TSL2561Constructed(interval) ==
    /\ gain_ = TSL2561_GAIN_1X
    /\ integration_time_ = TSL2561_INTEGRATION_402MS
    /\ package_cs_ = FALSE
    /\ tsl2561_warning = FALSE
    /\ tsl2561_failed = FALSE
    /\ tsl2561_phase = "constructed"
    /\ timeouts = <<>>
    /\ tsl2561_last = "none"
    /\ tsl2561_pre = [gain_ |-> TSL2561_GAIN_1X,
                      integration_time_ |-> TSL2561_INTEGRATION_402MS,
                      package_cs_ |-> FALSE, tsl2561_warning |-> FALSE,
                      tsl2561_failed |-> FALSE, timeouts |-> <<>>, now |-> 0]
    /\ i2c = <<>>
    /\ lx_published = <<>>
    /\ now = 0
    /\ update_interval = interval
    /\ next_due = interval
    /\ n_update = 0
    /\ n_published = 0
    /\ reads_since_update = 0
    /\ reads_before_update = 0

TSL2561Init == TSL2561Constructed(ShortUpdateInterval)

set_integration_time(integration_time) ==
    /\ integration_time_' = integration_time
    /\ UNCHANGED <<gain_, package_cs_, tsl2561_warning, tsl2561_failed,
                   tsl2561_phase, timeouts, tsl2561_last, tsl2561_pre, i2c,
                   lx_published>>
    /\ UNCHANGED <<mhz19_vars, checksum_vars>>

set_gain(gain) ==
    /\ gain_' = gain
    /\ UNCHANGED <<integration_time_, package_cs_, tsl2561_warning,
                   tsl2561_failed, tsl2561_phase, timeouts, tsl2561_last,
                   tsl2561_pre, i2c, lx_published>>
    /\ UNCHANGED <<mhz19_vars, checksum_vars>>

set_is_cs_package(package_cs) ==
    /\ package_cs_' = package_cs
    /\ UNCHANGED <<gain_, integration_time_, tsl2561_warning, tsl2561_failed,
                   tsl2561_phase, timeouts, tsl2561_last, tsl2561_pre, i2c,
                   lx_published>>
    /\ UNCHANGED <<mhz19_vars, checksum_vars>>

\* void TSL2561Sensor::setup().  ok_read: the timing register read is
\* acknowledged; timing: the byte read; ok_write: the write-back is.
setup(ok_read, timing, ok_write) ==
    LET result == setup_result(ok_read, timing, ok_write, gain_,
                               integration_time_)
    IN
    /\ tsl2561_phase = "constructed"
    /\ tsl2561_phase' = "running"
    /\ tsl2561_last' = "setup"
    /\ tsl2561_pre' = tsl2561_entry
    /\ tsl2561_failed' = (tsl2561_failed \/ result.mark_failed)  \* mark_failed()
    /\ i2c' = result.ops
    /\ lx_published' = <<>>
    /\ UNCHANGED <<gain_, integration_time_, package_cs_, tsl2561_warning,
                   timeouts>>
    /\ UNCHANGED <<mhz19_vars, checksum_vars>>

\* The outcomes of the bus for setup().
SetupCalls ==
    \/ setup(FALSE, 0, FALSE)
    \/ \E timing \in TimingBytes, ok_write \in BOOLEAN : setup(TRUE, timing, ok_write)

\* void TSL2561Sensor::update(), called by the scheduler once setup has run
\* and only while the device is not marked failed.  ok_write: the power-on
\* write is acknowledged.
tsl2561_update(ok_write) ==
    /\ tsl2561_phase = "running"
    /\ ~tsl2561_failed
    /\ tsl2561_last' = "update"
    /\ tsl2561_pre' = tsl2561_entry
    /\ i2c' = << i2c_write_byte(TSL2561_REGISTER_CONTROL, 3, ok_write) >>
    /\ timeouts' = update_timeouts(timeouts, integration_time_, now)
    /\ lx_published' = <<>>
    /\ UNCHANGED <<gain_, integration_time_, package_cs_, tsl2561_warning,
                   tsl2561_failed, tsl2561_phase>>
    /\ UNCHANGED <<mhz19_vars, checksum_vars>>

\* The outcomes of the bus for update().
UpdateCalls == \E ok_write \in BOOLEAN : tsl2561_update(ok_write)

\* void TSL2561Sensor::read_data_(), run by the first pending timeout, which
\* is removed as it fires.  ok0, ok1: the reads of data registers 0 and 1
\* are acknowledged; pair: the channel counts the device holds; ok_write:
\* the power-off write is acknowledged.
read_data_(ok0, ok1, pair, ok_write) ==
    LET data01 == channel_bytes(pair[1])
        data23 == channel_bytes(pair[2])
        read0  == i2c_read_bytes(TSL2561_REGISTER_DATA_0, 2, ok0, data01)
        read1  == i2c_read_bytes(TSL2561_REGISTER_DATA_1, 2, ok1, data23)
        channel0 == channel_of(data01[1], data01[2])
        channel1 == channel_of(data23[1], data23[2])
    IN
    /\ timeouts # <<>>
    /\ timeouts' = Tail(timeouts)
    /\ tsl2561_last' = "read_data_"
    /\ tsl2561_pre' = tsl2561_entry
    /\ IF ~ok0
       THEN /\ i2c' = <<read0>>
            /\ lx_published' = <<>>
       ELSE IF ~ok1
       THEN /\ i2c' = <<read0, read1>>
            /\ lx_published' = <<>>
       ELSE /\ i2c' = <<read0, read1,
                        i2c_write_byte(TSL2561_REGISTER_CONTROL, 0, ok_write)>>
            /\ lx_published' =
                  << [lx |-> calculate_lx_(channel0, channel1, gain_,
                                           integration_time_, package_cs_),
                      after |-> 3] >>
    /\ UNCHANGED <<gain_, integration_time_, package_cs_, tsl2561_warning,
                   tsl2561_failed, tsl2561_phase>>
    /\ UNCHANGED <<mhz19_vars, checksum_vars>>

\* The outcomes of the bus for read_data_(), over the channel pairs of a set.
ReadDataCalls(pairs) ==
    \/ \E pair \in pairs : read_data_(FALSE, FALSE, pair, FALSE)
    \/ \E pair \in pairs : read_data_(TRUE, FALSE, pair, FALSE)
    \/ \E pair \in pairs, ok_write \in BOOLEAN :
           read_data_(TRUE, TRUE, pair, ok_write)

\* ---- The handlers called in any order, the time standing still.

TSL2561Setup == SetupCalls /\ UNCHANGED scheduler_vars

TSL2561Update == UpdateCalls /\ UNCHANGED scheduler_vars

TSL2561ReadData == ReadDataCalls(ChannelPairs) /\ UNCHANGED scheduler_vars

TSL2561SetIntegrationTime ==
    /\ \E t \in IntegrationTimes : set_integration_time(t)
    /\ UNCHANGED scheduler_vars

TSL2561SetGain == (\E g \in Gains : set_gain(g)) /\ UNCHANGED scheduler_vars

TSL2561SetIsCsPackage ==
    (\E cs \in BOOLEAN : set_is_cs_package(cs)) /\ UNCHANGED scheduler_vars

\* ---- The handlers called by the scheduler, at their times.

\* The channel pair read under the scheduler: scenario A.
TimedChannelPairs == { <<1000, 300>> }

\* The integration time is configured before setup() runs.
TSL2561TimedSetIntegrationTime ==
    /\ tsl2561_phase = "constructed"
    /\ \E t \in IntegrationTimes : set_integration_time(t)
    /\ UNCHANGED scheduler_vars

\* The setup phase: setup() runs, and the first update() is due one
\* interval later.
TSL2561TimedSetup ==
    /\ SetupCalls
    /\ next_due' = now + update_interval
    /\ UNCHANGED <<now, update_interval, n_update, n_published,
                   reads_since_update, reads_before_update>>

\* tick(now), a due task: update() runs when now has reached next_due, and
\* is next due one interval after now.
TSL2561TimedUpdate ==
    /\ now >= next_due
    /\ n_update < MaxUpdates
    /\ UpdateCalls
    /\ next_due' = now + update_interval
    /\ n_update' = n_update + 1
    /\ reads_before_update' = reads_since_update
    /\ reads_since_update' = 0
    /\ UNCHANGED <<now, update_interval, n_published>>

\* tick(now), a due callback: the first pending timeout fires once its
\* delay has passed, and runs read_data_().
TSL2561TimedReadData ==
    /\ timeouts # <<>>
    /\ timeout_due(Head(timeouts), now)
    /\ ReadDataCalls(TimedChannelPairs)
    /\ n_published' = n_published + Len(lx_published')
    /\ reads_since_update' = IF reads_since_update < 2
                             THEN reads_since_update + 1 ELSE 2
    /\ UNCHANGED <<now, update_interval, next_due, n_update, reads_before_update>>

\* The instants the time is sampled at: just before, at and just after
\* each deadline (the next update, each pending timeout).
TickInstants ==
    { next_due + e : e \in TickOffsets }
    \cup { timeouts[i].set_at + timeouts[i].delay + e :
             i \in 1..Len(timeouts), e \in TickOffsets }

\* The time passes, to any later sampled instant: a tick of the scheduler
\* may be late, and pass several deadlines at once.
Tick ==
    /\ tsl2561_phase = "running"
    /\ \E t \in TickInstants : t > now /\ now' = t
    /\ UNCHANGED <<update_interval, next_due, n_update, n_published,
                   reads_since_update, reads_before_update>>
    /\ UNCHANGED tsl2561_driver_vars
    /\ UNCHANGED <<mhz19_vars, checksum_vars>>

----------------------------------------------------------------------------
(* mhz19_checksum on its own: request generation and response validation   *)

\* The command buffers the checksum is applied to: both start markers, and
\* bytes 1..7 whose sum is 0, below 256, exactly 256 and above 256.
ChecksumCommands ==
    { <<b0, b1, b2, b3, b4, b5, b6, b7>> :
        b0 \in {255, 0}, b1 \in {0, 1, 255}, b2 \in {0, 121, 134},
        b3 \in {0, 255}, b4 \in {0, 1}, b5 \in {0, 128}, b6 \in {0},
        b7 \in {0, 128} }

\* What a byte of a frame is altered by (added mod 256): never 0.
ChecksumDeltas == {1, 2, 128, 255}

\* No frame is being worked on.
ChecksumIdle ==
    /\ ck_command = MHZ19_COMMAND_GET_PPM
    /\ ck_frame = <<>>
    /\ ck_changed = -1
    /\ ck_valid = "unchecked"

\* A command buffer is given.
ChecksumInit ==
    /\ ck_command \in ChecksumCommands
    /\ ck_frame = <<>>
    /\ ck_changed = -1
    /\ ck_valid = "unchecked"

\* The request side (lines 260-261): the 8 command bytes, then
\* mhz19_checksum(command).
ChecksumAppend ==
    /\ ck_frame = <<>>
    /\ ck_frame' = SubSeq(ck_command, 1, MHZ19_REQUEST_LENGTH)
                       \o <<mhz19_checksum(ck_command)>>
    /\ UNCHANGED <<ck_command, ck_changed, ck_valid>>
    /\ UNCHANGED <<mhz19_vars, tsl2561_vars>>

\* One byte of the frame is altered on the wire.
ChecksumAlter ==
    /\ ck_frame # <<>>
    /\ ck_changed = -1
    /\ \E i \in 0..8, d \in ChecksumDeltas :
          /\ ck_frame' = [ck_frame EXCEPT ![i + 1] = (@ + d) % 256]
          /\ ck_changed' = i
    /\ ck_valid' = "unchecked"
    /\ UNCHANGED ck_command
    /\ UNCHANGED <<mhz19_vars, tsl2561_vars>>

\* The response side (lines 240-241): response[8] against
\* mhz19_checksum(response).
ChecksumValidate ==
    /\ ck_frame # <<>>
    /\ ck_valid = "unchecked"
    /\ ck_valid' = IF checksum_mismatch(ck_frame) THEN "invalid" ELSE "valid"
    /\ UNCHANGED <<ck_command, ck_frame, ck_changed>>
    /\ UNCHANGED <<mhz19_vars, tsl2561_vars>>

----------------------------------------------------------------------------
(* Specifications                                                          *)

Init == MHZ19Init /\ TSL2561Init /\ ChecksumIdle

\* mhz19_checksum applied to every command buffer of ChecksumCommands.
ChecksumNext == ChecksumAppend \/ ChecksumAlter \/ ChecksumValidate

\* Both drivers constructed, and a command buffer given.
InitChecksum == MHZ19Init /\ TSL2561Init /\ ChecksumInit

SpecChecksum == InitChecksum /\ [][ChecksumNext]_vars

\* The CO2 sensor alone.
MHZ19Next == MHZ19Update \/ make_temperature_sensor

SpecMHZ19 == Init /\ [][MHZ19Next]_vars

\* The illuminance sensor alone.
TSL2561Next ==
    \/ TSL2561SetIntegrationTime
    \/ TSL2561SetGain
    \/ TSL2561SetIsCsPackage
    \/ TSL2561Setup
    \/ TSL2561Update
    \/ TSL2561ReadData

SpecTSL2561 == Init /\ [][TSL2561Next]_vars

\* The illuminance sensor under the scheduler, with the time: the
\* integration time and the update interval are configured before setup().
InitTimed ==
    /\ MHZ19Init /\ ChecksumIdle
    /\ \E interval \in UpdateIntervals : TSL2561Constructed(interval)

TSL2561TimedNext ==
    \/ TSL2561TimedSetIntegrationTime
    \/ TSL2561TimedSetup
    \/ TSL2561TimedUpdate
    \/ TSL2561TimedReadData
    \/ Tick

SpecTSL2561Timed == InitTimed /\ [][TSL2561TimedNext]_vars

----------------------------------------------------------------------------
(* MH-Z19: vocabulary of the properties, read off the record of the cycle  *)

\* An update() has run.
Polled == uart # <<>>

\* The status primitives the cycle called.
WarningSetCalled ==
    \E i \in 1..Len(status_calls) : status_calls[i] = "status_set_warning"
WarningClearCalled ==
    \E i \in 1..Len(status_calls) : status_calls[i] = "status_clear_warning"

\* The frames the cycle transmitted: each write_array with the write_byte
\* that follows it.
FrameStarts == { i \in 1..Len(uart) : uart[i].op = "write_array" }
FrameAt(i) ==
    uart[i].data \o
    (IF i < Len(uart) /\ uart[i + 1].op = "write_byte" THEN uart[i + 1].data ELSE <<>>)
FramesSent == { FrameAt(i) : i \in FrameStarts }

GetReadingFrame == <<255, 1, 134, 0, 0, 0, 0, 0, 121>>
DisableAbcFrame == <<255, 1, 121, 0, 0, 0, 0, 0, 134>>

\* A frame carrying the disable-ABC command code was transmitted.
DisableAbcSent == \E f \in FramesSent : Len(f) >= 3 /\ f[3] = 121

\* The reads of the cycle, and whether one of them failed.
ReadsOfCycle == { i \in 1..Len(uart) : uart[i].op = "read_array" }
SomeReadFailed == \E i \in ReadsOfCycle : ~uart[i].ok
\* The acknowledgement of the disable-ABC frame was read / was not read.
DisableAbcAcked ==
    DisableAbcSent /\ Cardinality(ReadsOfCycle) = 2 /\ ~SomeReadFailed
DisableAbcNotAcked ==
    DisableAbcSent /\ \E i \in ReadsOfCycle : i > 5 /\ ~uart[i].ok

\* The checks of the received response, written out on its bytes.
PreambleValid == response[1] = 255 /\ response[2] = 134
FieldU == 256 * response[7] + response[8]
ChecksumOfResponse ==
    (255 - ((response[2] + response[3] + response[4] + response[5]
             + response[6] + response[7] + response[8]) % 256) + 1) % 256
ChecksumMatches == response[9] = ChecksumOfResponse

\* The flags are as they were when the cycle began.
FlagsUnchanged ==
    model_b = pre.model_b /\ abc_disabled = pre.abc_disabled

----------------------------------------------------------------------------
(* Properties                                                              *)

\* C1 (as claimed): every cycle that received a response whose byte 8
\* differs from the checksum of bytes 1..7 ends with status_set_warning()
\* called and with nothing published, whatever else happened in the cycle.
C1_ChecksumMismatchAlwaysWarns ==
    (read_ok /\ ~ChecksumMatches) => (WarningSetCalled /\ published = <<>>)

\* C2 (as claimed): a cycle whose response has a mismatched checksum leaves
\* model_b and abc_disabled as they were and sends no disable-ABC frame.
C2_ChecksumMismatchMutatesNothing ==
    (read_ok /\ ~ChecksumMatches) => (FlagsUnchanged /\ ~DisableAbcSent)

\* C3 (as claimed): a cycle whose received response has bytes 6-7 equal to
\* 15000 publishes nothing and does not call status_set_warning(), for all
\* values of the other bytes.
C3_BootGuardAnyBytes ==
    (read_ok /\ FieldU = 15000) => (published = <<>> /\ ~WarningSetCalled)

\* C3 (amended): a cycle whose received response has bytes 6-7 equal to
\* 15000 publishes nothing, for all values of the other bytes; and when
\* bytes 0-1 are the valid preamble (0xFF, 0x86) it does not call
\* status_set_warning().
C3_BootGuard ==
    (read_ok /\ FieldU = 15000) =>
        /\ published = <<>>
        /\ PreambleValid => ~WarningSetCalled

\* C3 witness: a booting response with a valid preamble was received while
\* the warning flag was set by an earlier cycle: it stays set, uncalled.
C3_Witness ==
    read_ok /\ FieldU = 15000 /\ PreambleValid /\ mhz19_warning
    /\ ~ChecksumMatches

\* What a fully validated response must publish: CO2 always, temperature
\* exactly when the temperature sensor existed during the cycle.
ExpectedPublications ==
    << <<"co2", 256 * response[3] + response[4]>> >> \o
    (IF pre.temperature_sensor_
     THEN << <<"temperature", response[5] - 40>> >> ELSE <<>>)

ResponseFullyValid ==
    read_ok /\ PreambleValid /\ FieldU # 15000 /\ ChecksumMatches

\* C4 (as claimed): every cycle whose response is read, has the valid
\* preamble, is not booting and has a matching checksum clears the warning
\* and publishes CO2 once and temperature exactly when the sensor exists.
C4_ValidResponseAlwaysPublishes ==
    ResponseFullyValid =>
        /\ status_calls = <<"status_clear_warning">>
        /\ ~mhz19_warning
        /\ published = ExpectedPublications

\* C4 (amended): the same, for the cycles in which no disable-ABC
\* acknowledgement goes unread.
C4_ValidResponsePublishes ==
    (ResponseFullyValid /\ ~DisableAbcNotAcked) =>
        /\ status_calls = <<"status_clear_warning">>
        /\ ~mhz19_warning
        /\ published = ExpectedPublications

\* C4 witness: a valid response published CO2 and temperature in the cycle
\* that also disabled ABC, clearing a warning.
C4_Witness ==
    /\ ResponseFullyValid /\ DisableAbcAcked
    /\ Len(published) = 2 /\ published[1] = <<"co2", 400>>
    /\ published[2] = <<"temperature", 0>>

\* C5: when the response is read but byte 0 is not 0xFF or byte 1 is not
\* 0x86, the warning is set, nothing is published, exactly one command
\* frame (the get-reading one) is sent and the flags are unchanged.
C5_InvalidPreamble ==
    (read_ok /\ ~PreambleValid) =>
        /\ status_calls = <<"status_set_warning">>
        /\ mhz19_warning
        /\ published = <<>>
        /\ FramesSent = {GetReadingFrame} /\ Cardinality(FrameStarts) = 1
        /\ FlagsUnchanged

\* C5 witness: a response with the right start marker and the wrong command
\* echo, otherwise publishable, was received by a B-variant driver.
C5_Witness ==
    /\ read_ok /\ response[1] = 255 /\ response[2] # 134
    /\ ChecksumMatches /\ FieldU # 15000 /\ response[6] = 0

\* C6 (as claimed): every poll in which a bus read fails leaves the device's
\* warning flag set: the MH-Z19 get-reading response, the MH-Z19 disable-ABC
\* acknowledgement, either TSL2561 data-register read.
C6_FailedReadSetsWarning ==
    /\ (Polled /\ SomeReadFailed) => mhz19_warning
    /\ (tsl2561_last = "read_data_"
        /\ \E i \in 1..Len(i2c) : i2c[i].op = "read_bytes" /\ ~i2c[i].ok)
          => tsl2561_warning

\* C7: a disable-ABC frame is sent only in a cycle in which model_b is true
\* as the frame is sent and abc_disabled was false; abc_disabled turns true
\* only in a cycle that sent the frame and read its response; it never
\* returns to false; once it is true no disable-ABC frame is sent.
C7_Cycle ==
    /\ DisableAbcSent => (model_b /\ ~pre.abc_disabled)
    /\ (abc_disabled /\ ~pre.abc_disabled) => DisableAbcAcked
    /\ pre.abc_disabled => (abc_disabled /\ ~DisableAbcSent)
    /\ Cardinality({i \in FrameStarts : FrameAt(i) = DisableAbcFrame}) <= 1

C7_AbcDisableOneTime ==
    /\ []C7_Cycle
    /\ [][abc_disabled => abc_disabled']_vars
    /\ [][(abc_disabled /\ uart' # uart) => ~DisableAbcSent']_vars

\* C7 witness: a publishing cycle of a B-variant driver with ABC already
\* disabled sent no disable-ABC frame.
C7_Witness ==
    /\ pre.abc_disabled /\ pre.model_b /\ ResponseFullyValid
    /\ published # <<>> /\ FramesSent = {GetReadingFrame}

\* A cycle that received a response passing the preamble check and the boot
\* guard.
PassedGuards == read_ok /\ PreambleValid /\ FieldU # 15000

\* C8 (as claimed, its safety part): when the disable-ABC response is not
\* read, abc_disabled stays false and the device is not marked failed; and
\* every later cycle that passes the preamble check and the boot guard sends
\* the disable-ABC frame again.
C8_EveryLaterCycleResends ==
    /\ DisableAbcNotAcked => (~abc_disabled /\ ~mhz19_failed)
    /\ (pre.abc_failures >= 1 /\ PassedGuards) => DisableAbcSent

\* C8 (amended): when the disable-ABC response is not read, abc_disabled
\* stays false and the device is not marked failed; every later cycle that
\* passes the preamble check and the boot guard while abc_disabled is still
\* false sends the disable-ABC frame again; and if cycles that pass the
\* guards with every read succeeding keep occurring, abc_disabled
\* eventually becomes true.
C8_Cycle ==
    /\ DisableAbcNotAcked => (~abc_disabled /\ ~mhz19_failed)
    /\ (pre.abc_failures >= 1 /\ ~pre.abc_disabled /\ PassedGuards) =>
          DisableAbcSent

C8_AbcDisableRetry ==
    /\ []C8_Cycle
    /\ ([]<>(PassedGuards /\ ~SomeReadFailed)) =>
          (DisableAbcNotAcked ~> abc_disabled)

\* C8 witness: ABC was disabled by a retry, after at least one unread
\* acknowledgement, on a response that does not itself announce the B
\* variant.
C8_Witness ==
    /\ abc_disabled /\ ~pre.abc_disabled /\ pre.abc_failures >= 1
    /\ DisableAbcAcked /\ response[6] # 0

\* C9: model_b turns true only in a cycle whose response was read, passed
\* the preamble check and the boot guard and has byte 5 = 0; once true it
\* stays true, whatever the later cycles receive.
C9_Cycle ==
    /\ (model_b /\ ~pre.model_b) => (PassedGuards /\ response[6] = 0)
    /\ pre.model_b => model_b

C9_ModelBSticky ==
    /\ []C9_Cycle
    /\ [][model_b => model_b']_vars

\* C9 witness: model_b is still true after a cycle that passed the guards
\* with byte 5 different from 0.
C9_Witness ==
    pre.model_b /\ model_b /\ PassedGuards /\ response[6] # 0

\* C10: every command exchange transmits exactly 9 bytes, the 8 command
\* bytes followed by the checksum byte (0xFF - (sum of bytes 1..7 mod 256)
\* + 1) mod 256: FF 01 86 00 00 00 00 00 79 for get-reading, sent first in
\* every cycle, and FF 01 79 00 00 00 00 00 86 for disable-ABC.
BytesWritten(i) == IF uart[i].op \in {"write_array", "write_byte"} THEN uart[i].n ELSE 0
RECURSIVE TotalWritten(_)
TotalWritten(i) == IF i = 0 THEN 0 ELSE BytesWritten(i) + TotalWritten(i - 1)

C10_Frames ==
    Polled =>
        /\ FrameStarts # {}
        /\ \A i \in FrameStarts :
              LET f == FrameAt(i) IN
              /\ Len(f) = 9
              /\ f[1] = 255
              /\ f[9] = (255 - ((f[2] + f[3] + f[4] + f[5] + f[6] + f[7] + f[8]) % 256)
                         + 1) % 256
              /\ f = IF i = 2 THEN GetReadingFrame ELSE DisableAbcFrame
        /\ 2 \in FrameStarts
        /\ TotalWritten(Len(uart)) = 9 * Cardinality(FrameStarts)
        /\ \A i \in 1..Len(uart) :
              uart[i].op = "write_byte" => (i - 1) \in FrameStarts

\* C10 witness: a cycle transmitted both frames.
C10_Witness ==
    FramesSent = {GetReadingFrame, DisableAbcFrame} /\ Cardinality(FrameStarts) = 2


\* C11: for every 8-byte buffer, the frame made by appending
\* mhz19_checksum passes the response-side validation, and the sum of its
\* bytes 1..8 is 0 mod 256; altering byte 0 leaves it valid; altering any
\* single one of bytes 1..8 makes the validation fail.
C11_ChecksumRoundTrip ==
    ck_frame # <<>> =>
        /\ Len(ck_frame) = 9
        /\ ck_changed = -1 =>
              /\ (ck_frame[2] + ck_frame[3] + ck_frame[4] + ck_frame[5]
                  + ck_frame[6] + ck_frame[7] + ck_frame[8] + ck_frame[9]) % 256 = 0
              /\ SubSeq(ck_frame, 1, 8) = ck_command
              /\ ck_valid \in {"unchecked", "valid"}
        /\ ck_changed = 0 =>
              /\ ck_frame[1] # ck_command[1]
              /\ ck_valid \in {"unchecked", "valid"}
        /\ ck_changed \in 1..8 => ck_valid \in {"unchecked", "invalid"}

\* C11 witness: a frame whose bytes 1..7 sum to 256 (checksum 0) was
\* validated after its checksum byte had been altered, and was rejected.
C11_Witness ==
    /\ ck_frame # <<>> /\ ck_changed = 8 /\ ck_valid = "invalid"
    /\ ck_command[2] + ck_command[3] + ck_command[4] + ck_command[5]
       + ck_command[6] + ck_command[7] + ck_command[8] = 256

\* C12: every exchange is flush, write of the 8 command bytes, write of the
\* checksum byte, read of 9 bytes, flush, the trailing flush also after a
\* failed read; update() performs one exchange, or two when it sends
\* disable-ABC, the get-reading one first, and nothing else on the bus.
ExchangeAt(k, command) ==
    /\ uart[k].op = "flush"
    /\ uart[k + 1].op = "write_array" /\ uart[k + 1].n = 8
    /\ uart[k + 1].data = SubSeq(command, 1, 8)
    /\ uart[k + 2].op = "write_byte" /\ uart[k + 2].n = 1
    /\ uart[k + 3].op = "read_array" /\ uart[k + 3].n = 9
    /\ uart[k + 4].op = "flush"

C12_ExchangeOrder ==
    /\ Polled =>
          /\ Len(uart) \in {5, 10}
          /\ ExchangeAt(1, <<255, 1, 134, 0, 0, 0, 0, 0>>)
          /\ uart[4].ok = read_ok
          /\ Len(uart) = 10 =>
                /\ ExchangeAt(6, <<255, 1, 121, 0, 0, 0, 0, 0>>)
                /\ read_ok
          /\ (Len(uart) = 10) = DisableAbcSent
    /\ ~Polled => uart = <<>>

\* C12 witness: a cycle of two exchanges whose second read failed; its log
\* ends with the flush all the same.
C12_Witness ==
    Len(uart) = 10 /\ ~uart[9].ok /\ uart[10].op = "flush"

\* ---- TSL2561: vocabulary of the properties, read off the record of the
\* ---- latest handler

\* The raw counts the latest read_data_() received, decoded little-endian
\* from the bytes of its two reads.
RawCh0 == i2c[1].data[1] + 256 * i2c[1].data[2]
RawCh1 == i2c[2].data[1] + 256 * i2c[2].data[2]

\* The latest handler was read_data_() and both of its reads succeeded.
BothReadsSucceeded ==
    /\ tsl2561_last = "read_data_"
    /\ Len(i2c) >= 2 /\ i2c[1].ok /\ i2c[2].ok

\* The latest handler was read_data_() and one of its reads failed.
AReadFailed ==
    /\ tsl2561_last = "read_data_"
    /\ \E i \in 1..Len(i2c) : i2c[i].op = "read_bytes" /\ ~i2c[i].ok

\* The table of integration times, in tenths of a millisecond, and the
\* whole milliseconds of integration time + 20 ms.
IntegrationTenths(code) ==
    CASE code = 0 -> 137 [] code = 1 -> 1000 [] code = 2 -> 4020 [] OTHER -> 0
WholeDelay(code) ==
    CASE code = 0 -> 33 [] code = 1 -> 120 [] code = 2 -> 422 [] OTHER -> 20

\* The branch thresholds (in hundredths) and the leading coefficients (in
\* units of 10^-5) of the formula branches, per package.
Thresholds(cs) == IF cs THEN <<52, 65, 80, 130>> ELSE <<50, 61, 80, 130>>
LeadingCoefficients(cs) ==
    IF cs THEN <<3150, 2290, 1570, 338>> ELSE <<3040, 2240, 1280, 146>>

\* The interval the ratio ch1/ch0 lies in, 1..5, lower bounds inclusive:
\* one more than the number of thresholds the ratio has reached.
IntervalOf(ch0, ch1, cs) ==
    1 + Cardinality({ k \in 1..4 : ch1 * 100 >= Thresholds(cs)[k] * ch0 })

\* C13: setup() whose read of the timing register is not acknowledged marks
\* the device failed and writes to no register; setup() whose read is
\* acknowledged does not mark it failed, even when the write-back is not
\* acknowledged.
C13_SetupFailure ==
    tsl2561_last = "setup" =>
        /\ i2c[1].op = "read_byte" /\ i2c[1].reg = TSL2561_REGISTER_TIMING
        /\ ~i2c[1].ok =>
              /\ tsl2561_failed
              /\ \A i \in 1..Len(i2c) : i2c[i].op # "write_byte"
        /\ i2c[1].ok =>
              /\ ~tsl2561_failed
              /\ Len(i2c) = 2 /\ i2c[2].op = "write_byte"
              /\ i2c[2].reg = TSL2561_REGISTER_TIMING

\* C13 witness: the read was acknowledged, the write-back was not, and the
\* device is not marked failed.
C13_Witness ==
    /\ tsl2561_last = "setup" /\ Len(i2c) = 2
    /\ i2c[1].ok /\ ~i2c[2].ok /\ ~tsl2561_failed

\* C14: the byte setup() writes back has bit 4 (mask 0x10) equal to 1
\* exactly when the gain is 16x, bits 0-1 equal to the integration-time
\* code, and every other bit equal to that bit of the byte read.
C14_TimingByteWritten ==
    (tsl2561_last = "setup" /\ Len(i2c) = 2) =>
        LET t == i2c[1].data[1]
            w == i2c[2].data[1]
        IN  /\ bit(w, 4) = (IF tsl2561_pre.gain_ = TSL2561_GAIN_16X THEN 1 ELSE 0)
            /\ bit(w, 0) + 2 * bit(w, 1) = tsl2561_pre.integration_time_
            /\ \A k \in {2, 3, 5, 6, 7} : bit(w, k) = bit(t, k)

\* C15 (amended): update() writes the power-on command 0x03 to the control
\* register, reads no data register, publishes nothing and leaves one
\* "illuminance" timeout whose delay is the integration time + 20 ms
\* truncated to whole milliseconds (33, 120, 422; 20 for any other code);
\* data registers are read by read_data_() only, and never sooner than that
\* delay after the latest power-on.
C15_UpdateSchedulesRead ==
    /\ update_timeout(3) = 20
    /\ tsl2561_last = "update" =>
          /\ Len(i2c) = 1 /\ i2c[1].op = "write_byte"
          /\ i2c[1].reg = TSL2561_REGISTER_CONTROL /\ i2c[1].data = <<3>>
          /\ lx_published = <<>>
          /\ timeouts = << [key |-> "illuminance", set_at |-> tsl2561_pre.now,
                            delay |-> WholeDelay(tsl2561_pre.integration_time_)] >>
    /\ \A i \in 1..Len(i2c) :
          i2c[i].reg \in {TSL2561_REGISTER_DATA_0, TSL2561_REGISTER_DATA_1}
              => /\ tsl2561_last = "read_data_"
                 /\ now - Head(tsl2561_pre.timeouts).set_at
                        >= WholeDelay(tsl2561_pre.integration_time_)

\* C15 witness: with the 14 ms integration time, the data registers were
\* read 33 ms after the power-on.
C15_Witness ==
    /\ tsl2561_last = "read_data_" /\ Len(i2c) >= 2
    /\ tsl2561_pre.integration_time_ = TSL2561_INTEGRATION_14MS
    /\ now - Head(tsl2561_pre.timeouts).set_at = 33

\* C15 as stated: the delay is the integration time of the table + 20 ms
\* (33.7 ms for the 14 ms code), and no data register is read sooner than
\* that after the latest power-on.
C15_DelayIsIntegrationTimePlus20 ==
    /\ tsl2561_last = "update" =>
          /\ Len(timeouts) = 1
          /\ 10 * timeouts[1].delay
                = IntegrationTenths(tsl2561_pre.integration_time_) + 200
    /\ \A i \in 1..Len(i2c) :
          i2c[i].reg \in {TSL2561_REGISTER_DATA_0, TSL2561_REGISTER_DATA_1}
              => /\ tsl2561_last = "read_data_"
                 /\ 10 * (now - Head(tsl2561_pre.timeouts).set_at)
                        >= IntegrationTenths(tsl2561_pre.integration_time_) + 200

\* C16: read_data_() publishes exactly when both 2-byte reads (register 0,
\* then register 1) succeed; then the power-off command is written after
\* the reads and before the single publish, and the value is computed from
\* the channels decoded little-endian.  When a read fails nothing is
\* published, register 1 is not read after a failed read of register 0, no
\* power-off is written, and nothing of the cycle is kept: the status flags
\* are as before and no timeout is left pending.
C16_ReadData ==
    tsl2561_last = "read_data_" =>
        /\ i2c[1].op = "read_bytes" /\ i2c[1].reg = TSL2561_REGISTER_DATA_0
        /\ i2c[1].n = 2
        /\ Len(lx_published) = (IF BothReadsSucceeded THEN 1 ELSE 0)
        /\ ~i2c[1].ok => Len(i2c) = 1
        /\ i2c[1].ok =>
              /\ Len(i2c) >= 2
              /\ i2c[2].op = "read_bytes" /\ i2c[2].reg = TSL2561_REGISTER_DATA_1
              /\ i2c[2].n = 2
        /\ BothReadsSucceeded =>
              /\ Len(i2c) = 3
              /\ i2c[3].op = "write_byte" /\ i2c[3].reg = TSL2561_REGISTER_CONTROL
              /\ i2c[3].data = <<0>>
              /\ lx_published[1].after = 3
              /\ lx_published[1].lx =
                    calculate_lx_(RawCh0, RawCh1, tsl2561_pre.gain_,
                                  tsl2561_pre.integration_time_,
                                  tsl2561_pre.package_cs_)
        /\ AReadFailed =>
              /\ \A i \in 1..Len(i2c) : i2c[i].op = "read_bytes"
              /\ tsl2561_failed = tsl2561_pre.tsl2561_failed
              /\ tsl2561_warning = tsl2561_pre.tsl2561_warning
              /\ timeouts = <<>>

\* C16 witness: the counts 258 and 3 (bytes 02 01 and 03 00) were read and
\* a value computed from them was published after the power-off.
C16_Witness ==
    /\ BothReadsSucceeded
    /\ i2c[1].data = <<2, 1>> /\ i2c[2].data = <<3, 0>>
    /\ Len(lx_published) = 1 /\ lx_published[1].lx.kind = "formula"
    /\ lx_published[1].lx.ch0 = 258

\* C17: when either channel read is 0xFFFF, whatever the other channel, the
\* gain, the integration time and the package, calculate_lx_ returns
\* not-a-number and read_data_() publishes it, once.
C17_Saturation ==
    /\ \A pair \in ChannelPairs, g \in Gains, t \in IntegrationTimes,
          cs \in BOOLEAN :
          (pair[1] = 65535 \/ pair[2] = 65535)
              => calculate_lx_(pair[1], pair[2], g, t, cs) = lx_nan
    /\ (BothReadsSucceeded /\ (RawCh0 = 65535 \/ RawCh1 = 65535))
          => lx_published = << [lx |-> lx_nan, after |-> 3] >>

\* C17 witness: channel 1 alone was saturated, and not-a-number was published.
C17_Witness ==
    /\ BothReadsSucceeded /\ RawCh0 = 7 /\ RawCh1 = 65535
    /\ Len(lx_published) = 1 /\ lx_published[1].lx.kind = "nan"

\* C18: for a pair that is not saturated (and has channel 0 above 0), the
\* branch used is the one of the interval the ratio ch1/ch0 of the raw
\* counts lies in, the lower bounds inclusive: the constant 0.0 from 1.30
\* on, else the formula with the interval's coefficients, whatever the gain
\* and the integration time.
C18_BranchSelection ==
    (BothReadsSucceeded /\ RawCh0 # 65535 /\ RawCh1 # 65535 /\ RawCh0 > 0) =>
        LET cs       == tsl2561_pre.package_cs_
            interval == IntervalOf(RawCh0, RawCh1, cs)
            lx       == lx_published[1].lx
        IN  IF interval = 5
            THEN lx.kind = "zero"
            ELSE /\ lx.kind = "formula"
                 /\ lx.k0 = LeadingCoefficients(cs)[interval]
                 /\ lx.ch0 = RawCh0 /\ lx.ch1 = RawCh1

\* C18 witness: with the CS package, the ratio 13/25 = 0.52 exactly took
\* the branch above the threshold.
C18_Witness ==
    /\ BothReadsSucceeded /\ tsl2561_pre.package_cs_
    /\ RawCh0 = 25 /\ RawCh1 = 13
    /\ lx_published[1].lx.k0 = 2290

\* The conversion delay is shorter than the update interval, in the record
\* of an update().
IntervalLongerThanDelay ==
    /\ tsl2561_last = "update" /\ Len(timeouts) >= 1
    /\ update_interval > Head(timeouts).delay

\* The confirmed part of C19: at most one "illuminance" callback is
\* pending; an update() leaves exactly the one it registers, whatever was
\* pending; read_data_() runs at most once per update(); the values
\* published never outnumber the update() calls.
AtMostOnePending ==
    /\ Len(timeouts) <= 1
    /\ \A i \in 1..Len(timeouts) : timeouts[i].key = "illuminance"
    /\ tsl2561_last = "update" =>
          /\ Len(timeouts) = 1
          /\ timeouts[1].set_at = tsl2561_pre.now
    /\ reads_since_update <= 1
    /\ n_update = 0 => reads_since_update = 0
    /\ n_published <= n_update

\* C19 (amended): the above, and when the update interval is longer than
\* the conversion delay and no callback that is due is still pending when
\* an update() begins, exactly one read_data_() has run since the update()
\* before.
C19_DeferredRead ==
    /\ AtMostOnePending
    /\ (/\ IntervalLongerThanDelay
        /\ n_update >= 2
        /\ \A i \in 1..Len(tsl2561_pre.timeouts) :
              ~timeout_due(tsl2561_pre.timeouts[i], tsl2561_pre.now))
          => reads_before_update = 1

\* C19 witness: the third update() began while the callback of the second
\* was still pending, and replaced it; the first one's value was published.
C19_Witness ==
    /\ tsl2561_last = "update" /\ n_update = 3 /\ n_published = 1
    /\ tsl2561_pre.timeouts # <<>> /\ Len(timeouts) = 1
    /\ timeouts[1].set_at = now

\* C19 as stated: whenever the update interval is longer than the
\* conversion delay, every update() is followed by exactly one
\* read_data_() before the next update().
C19_ExactlyOneReadPerUpdate ==
    /\ AtMostOnePending
    /\ (IntervalLongerThanDelay /\ n_update >= 2) => reads_before_update = 1

\* C20: in every reachable state abc_disabled = true implies model_b =
\* true; both flags are false until an update() has run.
C20_AbcDisabledImpliesModelB ==
    /\ abc_disabled => model_b
    /\ ~Polled => (~abc_disabled /\ ~model_b)

\* C20 witness: ABC was disabled in a cycle whose response has byte 5
\* different from 0, by a driver that had detected the variant earlier.
C20_Witness ==
    abc_disabled /\ model_b /\ ~pre.abc_disabled /\ read_ok /\ response[6] # 0

====
